---- MODULE Spec2Model ----
(***************************************************************************)
(* Model of the games_scraper repository: the ActivePlayer pagination       *)
(* driver (activeplayer_scraper.py), the Steam Charts retry loop            *)
(* (steamdb_scraper.py) and the orchestrator (main_scraper.py).             *)
(*                                                                         *)
(* Texts (cell texts, header texts, link texts) are TLA+ strings, read      *)
(* character by character with Len and SubSeq.  Numbers produced by the     *)
(* normalizers are fixed-point integers counting TENTHS (1500.0 is 15000);  *)
(* the texts the model draws have at most one fractional digit.             *)
(***************************************************************************)
EXTENDS Integers, Sequences, FiniteSets, TLC

\* ------------------------------------------------------------------ text

CharAt(s, i) == SubSeq(s, i, i)

Upper == "ABCDEFGHIJKLMNOPQRSTUVWXYZ"
LowerLetters == "abcdefghijklmnopqrstuvwxyz"
Digits == "0123456789"

\* position of the one-character string c in s, 0 when absent
IndexOf(c, s) ==
    IF \E i \in 1..Len(s) : CharAt(s, i) = c
    THEN CHOOSE i \in 1..Len(s) : CharAt(s, i) = c /\ \A j \in 1..(i-1) : CharAt(s, j) # c
    ELSE 0

IsDigit(c) == IndexOf(c, Digits) # 0
DigitVal(c) == IndexOf(c, Digits) - 1
IsSpace(c) == c = " "

LowerChar(c) == IF IndexOf(c, Upper) # 0 THEN CharAt(LowerLetters, IndexOf(c, Upper)) ELSE c

RECURSIVE Lower(_)
\* str.lower()
Lower(s) == IF Len(s) = 0 THEN "" ELSE LowerChar(Head(s)) \o Lower(Tail(s))

RECURSIVE RemoveChar(_, _)
\* str.replace(c, '')
RemoveChar(s, c) ==
    IF Len(s) = 0 THEN ""
    ELSE IF Head(s) = c THEN RemoveChar(Tail(s), c)
    ELSE Head(s) \o RemoveChar(Tail(s), c)

RECURSIVE LStrip(_)
LStrip(s) == IF Len(s) > 0 /\ IsSpace(Head(s)) THEN LStrip(Tail(s)) ELSE s

RECURSIVE RStrip(_)
RStrip(s) ==
    IF Len(s) > 0 /\ IsSpace(CharAt(s, Len(s))) THEN RStrip(SubSeq(s, 1, Len(s) - 1)) ELSE s

\* str.strip()
Strip(s) == RStrip(LStrip(s))

\* str.startswith / str.endswith / the `in` operator on strings
StartsWith(s, p) == Len(s) >= Len(p) /\ SubSeq(s, 1, Len(p)) = p
EndsWith(s, p) == Len(s) >= Len(p) /\ SubSeq(s, Len(s) - Len(p) + 1, Len(s)) = p
Contains(s, p) == \E i \in 1..(Len(s) - Len(p) + 1) : SubSeq(s, i, i + Len(p) - 1) = p

\* cleaned[:-1]
DropLast(s) == SubSeq(s, 1, Len(s) - 1)

AllDigits(s) == \A i \in 1..Len(s) : IsDigit(CharAt(s, i))

RECURSIVE DigitsValue(_)
\* value of a digit string, 0 for the empty string
DigitsValue(s) ==
    IF Len(s) = 0 THEN 0 ELSE 10 * DigitsValue(DropLast(s)) + DigitVal(CharAt(s, Len(s)))

\* ------------------------------------------------------------ normalizer

NoValue == [ok |-> FALSE, val |-> 0]

\* float() of an unsigned decimal literal: digits, optionally one '.', at
\* least one digit overall; the value in tenths
UnsignedFloat(s) ==
    LET dot == IndexOf(".", s)
        ip  == IF dot = 0 THEN s ELSE SubSeq(s, 1, dot - 1)
        fp  == IF dot = 0 THEN "" ELSE SubSeq(s, dot + 1, Len(s))
    IN  IF AllDigits(ip) /\ AllDigits(fp) /\ Len(ip) + Len(fp) > 0
        THEN [ok  |-> TRUE,
              val |-> 10 * DigitsValue(ip) + (IF Len(fp) = 0 THEN 0 ELSE DigitVal(Head(fp)))]
        ELSE NoValue

\* Python's float(text) on the texts of the model (digits, '.', ',', '%',
\* signs, spaces and letters other than an exponent, "inf" or "nan"):
\* surrounding whitespace is ignored, one leading sign is accepted, and
\* anything else raises ValueError (ok = FALSE)
PyFloat(text) ==
    LET s    == Strip(text)
        neg  == StartsWith(s, "-")
        body == IF StartsWith(s, "-") \/ StartsWith(s, "+") THEN Tail(s) ELSE s
        u    == UnsignedFloat(body)
    IN  IF u.ok THEN [ok |-> TRUE, val |-> IF neg THEN 0 - u.val ELSE u.val] ELSE NoValue

\* activeplayer_scraper.parse_number_with_commas, result in tenths
ParseNumberAP(text) ==
    IF Strip(text) = "" THEN 0
    ELSE LET cleaned == Lower(Strip(RemoveChar(RemoveChar(text, ","), "%")))
             mult    == IF EndsWith(cleaned, "k") THEN 1000
                        ELSE IF EndsWith(cleaned, "m") THEN 1000000
                        ELSE IF EndsWith(cleaned, "b") THEN 1000000000
                        ELSE 1
             num     == IF mult = 1 THEN cleaned ELSE DropLast(cleaned)
             f       == PyFloat(num)
         IN  IF f.ok THEN f.val * mult ELSE 0

\* steamdb_scraper.parse_number_with_commas, result in tenths
ParseNumberSteam(text) ==
    IF Strip(text) = "" THEN 0
    ELSE LET cleaned == Strip(RemoveChar(RemoveChar(text, ","), "%"))
             f       == PyFloat(cleaned)
         IN  IF StartsWith(cleaned, "+") \/ StartsWith(cleaned, "-") THEN 0
             ELSE IF f.ok THEN f.val ELSE 0

\* ------------------------------------------------------- page documents
\* A fetched ActivePlayer page (the BeautifulSoup document) is
\*   [tables |-> sequence of <table> elements in document order,
\*    pagination |-> [present |-> whether a div.ms-pagination exists,
\*                    links |-> its <a> elements]]
\* a <table> is [id, class (the class list), thead (has a <thead>),
\*   headers (texts of the <th> of the thead), rows (one sequence of <td>
\*   texts per <tr>, the header row having none)]
\* an <a> is [text, href], href = NoHref when the attribute is absent.

NoPagination == [present |-> FALSE, links |-> << >>]
Pagination(links) == [present |-> TRUE, links |-> links]
NoHref == "none"
NoTable == [found |-> FALSE]
None == 0 - 1

RECURSIVE Str(_)
\* str(n) of a natural number
Str(n) == IF n < 10 THEN CharAt(Digits, n + 1) ELSE Str(n \div 10) \o CharAt(Digits, (n % 10) + 1)

InSeq(e, s) == \E i \in 1..Len(s) : s[i] = e

\* soup.find("table", ...): the first table in document order satisfying
\* the predicate of signature sig
MatchesSignature(t, sig) ==
    CASE sig = "table_2" -> t.id = "table_2"
      [] sig = "table_3" -> t.id = "table_3"
      [] sig = "table table-striped" -> t.class = <<"table", "table-striped">>
      [] OTHER -> InSeq(sig, t.class)

Signatures ==
    << "table_2", "table_3", "steam-stats-table", "asdrm-monthly-stats-table",
       "gst-data-table", "wgs-stats-table", "table table-striped" >>

Find(doc, sig) ==
    IF \E i \in 1..Len(doc.tables) : MatchesSignature(doc.tables[i], sig)
    THEN LET i == CHOOSE k \in 1..Len(doc.tables) :
                    /\ MatchesSignature(doc.tables[k], sig)
                    /\ \A j \in 1..(k-1) : ~MatchesSignature(doc.tables[j], sig)
         IN  [found |-> TRUE, table |-> doc.tables[i], signature |-> sig]
    ELSE NoTable

RECURSIVE LocateFrom(_, _)
LocateFrom(doc, k) ==
    IF k > Len(Signatures) THEN NoTable
    ELSE IF Find(doc, Signatures[k]).found THEN Find(doc, Signatures[k])
    ELSE LocateFrom(doc, k + 1)

\* Locate returning the first table of the document that matches any of the
\* signatures, under the earliest signature that table matches
LocateFirstTableInDocument(doc) ==
    LET hit(i) == \E k \in 1..Len(Signatures) : MatchesSignature(doc.tables[i], Signatures[k]) IN
    IF \E i \in 1..Len(doc.tables) : hit(i)
    THEN LET i == CHOOSE i \in 1..Len(doc.tables) : hit(i) /\ \A j \in 1..(i-1) : ~hit(j)
             k == CHOOSE k \in 1..Len(Signatures) :
                     /\ MatchesSignature(doc.tables[i], Signatures[k])
                     /\ \A j \in 1..(k-1) : ~MatchesSignature(doc.tables[i], Signatures[j])
         IN  [found |-> TRUE, table |-> doc.tables[i], signature |-> Signatures[k]]
    ELSE NoTable

\* the chain of soup.find calls of scrape_activeplayer
Locate(doc) == LocateFrom(doc, 1)

PeakKeywords == <<"peak", "max player", "max concurrent">>
AvgKeywords == <<"average daily", "daily avg", "daily average", "daily average users">>

AnyKeyword(text, kws) == \E k \in 1..Len(kws) : Contains(text, kws[k])

\* HeaderStep keeping an index once it is set
HeaderStepFirstWins(m, h, i) ==
    LET avg(x) == IF m.avg = None THEN [m EXCEPT !.avg = x] ELSE m IN
    IF AnyKeyword(h, PeakKeywords) THEN (IF m.peak = None THEN [m EXCEPT !.peak = i] ELSE m)
    ELSE IF AnyKeyword(h, AvgKeywords) THEN avg(i)
    ELSE IF Contains(h, "estimated players") THEN avg(i)
    ELSE IF Contains(h, "monthly average users") THEN avg(i)
    ELSE IF Contains(h, "players") /\ m.peak = None THEN avg(i)
    ELSE IF Contains(h, "average daily players") THEN avg(i)
    ELSE IF Contains(h, "daily average") THEN avg(i)
    ELSE m

\* HeaderStep with the "players" test ahead of the peak keywords
HeaderStepPlayersFirst(m, h, i) ==
    IF Contains(h, "players") /\ m.peak = None THEN [m EXCEPT !.avg = i]
    ELSE IF AnyKeyword(h, PeakKeywords) THEN [m EXCEPT !.peak = i]
    ELSE IF AnyKeyword(h, AvgKeywords) THEN [m EXCEPT !.avg = i]
    ELSE IF Contains(h, "estimated players") THEN [m EXCEPT !.avg = i]
    ELSE IF Contains(h, "monthly average users") THEN [m EXCEPT !.avg = i]
    ELSE IF Contains(h, "average daily players") THEN [m EXCEPT !.avg = i]
    ELSE IF Contains(h, "daily average") THEN [m EXCEPT !.avg = i]
    ELSE m

\* one step of the generic header pass: header text h at (0-based) index i
HeaderStep(m, h, i) ==
    IF AnyKeyword(h, PeakKeywords) THEN [m EXCEPT !.peak = i]
    ELSE IF AnyKeyword(h, AvgKeywords) THEN [m EXCEPT !.avg = i]
    ELSE IF Contains(h, "estimated players") THEN [m EXCEPT !.avg = i]
    ELSE IF Contains(h, "monthly average users") THEN [m EXCEPT !.avg = i]
    ELSE IF Contains(h, "players") /\ m.peak = None THEN [m EXCEPT !.avg = i]
    ELSE IF Contains(h, "average daily players") THEN [m EXCEPT !.avg = i]
    ELSE IF Contains(h, "daily average") THEN [m EXCEPT !.avg = i]
    ELSE m

RECURSIVE HeaderPass(_, _)
\* the loop over enumerate(header_cells), folded over the first n headers
HeaderPass(cells, n) ==
    IF n = 0 THEN [avg |-> None, peak |-> None]
    ELSE HeaderStep(HeaderPass(cells, n - 1), cells[n], n - 1)

\* header_cells = [th.get_text(strip=True).lower() ...]
HeaderCells(t) == [i \in 1..Len(t.headers) |-> Lower(Strip(t.headers[i]))]

\* Resolve with overrides that fill in a missing peak_idx only
ResolveKeepsPeak(t) ==
    LET g == HeaderPass(HeaderCells(t), Len(t.headers))
        alias == IF g.avg # None /\ g.peak = None THEN [g EXCEPT !.peak = g.avg] ELSE g
        m == IF InSeq("asdrm-monthly-stats-table", t.class) THEN alias
             ELSE IF t.id = "table_3" THEN alias
             ELSE IF InSeq("wgs-stats-table", t.class) THEN alias
             ELSE IF InSeq("gst-data-table", t.class) THEN alias
             ELSE g
        striped == /\ ~InSeq("asdrm-monthly-stats-table", t.class)
                   /\ t.id # "table_3"
                   /\ ~InSeq("wgs-stats-table", t.class)
                   /\ ~InSeq("gst-data-table", t.class)
                   /\ InSeq("table-striped", t.class)
    IN  IF striped /\ (g.avg = None \/ g.peak = None) THEN [ok |-> FALSE, avg |-> g.avg, peak |-> g.peak]
        ELSE IF m.avg = None \/ m.peak = None THEN [ok |-> FALSE, avg |-> m.avg, peak |-> m.peak]
        ELSE [ok |-> TRUE, avg |-> m.avg, peak |-> m.peak]

\* Resolve with the table-striped layout handled like the single-column
\* layouts: a missing peak_idx is filled in from avg_idx
ResolveStripedAliases(t) ==
    LET g == HeaderPass(HeaderCells(t), Len(t.headers))
        alias == IF g.avg # None THEN [g EXCEPT !.peak = g.avg] ELSE g
        m == IF InSeq("asdrm-monthly-stats-table", t.class) THEN alias
             ELSE IF t.id = "table_3" THEN alias
             ELSE IF InSeq("wgs-stats-table", t.class) THEN alias
             ELSE IF InSeq("gst-data-table", t.class) THEN alias
             ELSE IF InSeq("table-striped", t.class) /\ g.peak = None THEN alias
             ELSE g
    IN  IF m.avg = None \/ m.peak = None THEN [ok |-> FALSE, avg |-> m.avg, peak |-> m.peak]
        ELSE [ok |-> TRUE, avg |-> m.avg, peak |-> m.peak]

\* the override chain on the attributes of the located table, then the two
\* None checks: ok = FALSE is a break out of the page loop
Resolve(t) ==
    LET g == HeaderPass(HeaderCells(t), Len(t.headers))
        alias == IF g.avg # None THEN [g EXCEPT !.peak = g.avg] ELSE g
        m == IF InSeq("asdrm-monthly-stats-table", t.class) THEN alias
             ELSE IF t.id = "table_3" THEN alias
             ELSE IF InSeq("wgs-stats-table", t.class) THEN alias
             ELSE IF InSeq("gst-data-table", t.class) THEN alias
             ELSE g
        striped == /\ ~InSeq("asdrm-monthly-stats-table", t.class)
                   /\ t.id # "table_3"
                   /\ ~InSeq("wgs-stats-table", t.class)
                   /\ ~InSeq("gst-data-table", t.class)
                   /\ InSeq("table-striped", t.class)
    IN  IF striped /\ (g.avg = None \/ g.peak = None) THEN [ok |-> FALSE, avg |-> g.avg, peak |-> g.peak]
        ELSE IF m.avg = None \/ m.peak = None THEN [ok |-> FALSE, avg |-> m.avg, peak |-> m.peak]
        ELSE [ok |-> TRUE, avg |-> m.avg, peak |-> m.peak]

Max(a, b) == IF a >= b THEN a ELSE b

\* one <tr> of the row loop: the records it appends (none or one)
RowRecords(cols, m, game_name) ==
    IF Len(cols) > Max(m.avg, m.peak)
    THEN LET avg_daily == ParseNumberAP(Strip(cols[m.avg + 1]))
             peak == ParseNumberAP(Strip(cols[m.peak + 1]))
         IN  IF avg_daily > 0 /\ peak > 0
             THEN << <<Strip(cols[1]), game_name, avg_daily, peak>> >>
             ELSE << >>
    ELSE << >>

RECURSIVE ExtractRowsStopsAtMalformed(_, _, _, _)
\* ExtractRows with `break` at a row that has too few cells
ExtractRowsStopsAtMalformed(rows, n, m, game_name) ==
    IF n = 0 THEN << >>
    ELSE IF \E k \in 1..n : Len(rows[k]) <= Max(m.avg, m.peak) THEN
         LET k == CHOOSE k \in 1..n :
                     /\ Len(rows[k]) <= Max(m.avg, m.peak)
                     /\ \A j \in 1..(k-1) : Len(rows[j]) > Max(m.avg, m.peak)
         IN  ExtractRowsStopsAtMalformed(rows, k - 1, m, game_name)
    ELSE ExtractRowsStopsAtMalformed(rows, n - 1, m, game_name) \o RowRecords(rows[n], m, game_name)

RECURSIVE ExtractRows(_, _, _, _)
\* the loop over table.find_all("tr"), over the first n rows
ExtractRows(rows, n, m, game_name) ==
    IF n = 0 THEN << >>
    ELSE ExtractRows(rows, n - 1, m, game_name) \o RowRecords(rows[n], m, game_name)

\* HasNext without the `else: break` of a page that has no pagination control
HasNextAssumesMore(doc, pn) ==
    \/ ~doc.pagination.present
    \/ \E i \in 1..Len(doc.pagination.links) :
          LET link == doc.pagination.links[i] IN
          /\ link.href # NoHref
          /\ \/ Contains(link.text, "Next")
             \/ Contains(link.href, "ms_page=" \o Str(pn + 1))

\* HasNext looking at the link texts only
HasNextTextOnly(doc, pn) ==
    /\ doc.pagination.present
    /\ \E i \in 1..Len(doc.pagination.links) :
          LET link == doc.pagination.links[i] IN
          /\ link.href # NoHref
          /\ Contains(link.text, "Next")

\* the pagination check at the end of a page
HasNext(doc, page_num) ==
    /\ doc.pagination.present
    /\ \E i \in 1..Len(doc.pagination.links) :
          LET link == doc.pagination.links[i] IN
          /\ link.href # NoHref
          /\ \/ Contains(link.text, "Next")
             \/ Contains(link.href, "ms_page=" \o Str(page_num + 1))

\* ProcessPage with `continue` in place of `break` when no table is found
ProcessPageSkipsPageWithoutTable(doc, page_num, game_name) ==
    LET loc == Locate(doc) IN
    IF ~loc.found THEN [records |-> << >>, continue |-> TRUE]
    ELSE IF ~loc.table.thead THEN [records |-> << >>, continue |-> FALSE]
    ELSE LET m == Resolve(loc.table) IN
         IF ~m.ok THEN [records |-> << >>, continue |-> FALSE]
         ELSE [records  |-> ExtractRows(loc.table.rows, Len(loc.table.rows), m, game_name),
               continue |-> HasNext(doc, page_num)]

\* what one iteration of the while loop does with a fetched document:
\* the records it appends and whether the loop goes on to the next page
ProcessPage(doc, page_num, game_name) ==
    LET loc == Locate(doc) IN
    IF ~loc.found THEN [records |-> << >>, continue |-> FALSE]
    ELSE IF ~loc.table.thead THEN [records |-> << >>, continue |-> FALSE]
    ELSE LET m == Resolve(loc.table) IN
         IF ~m.ok THEN [records |-> << >>, continue |-> FALSE]
         ELSE [records  |-> ExtractRows(loc.table.rows, Len(loc.table.rows), m, game_name),
               continue |-> HasNext(doc, page_num)]

\* ------------------------------------------------------ Steam Charts page
\* A loaded Steam Charts page is [found |-> whether any table selector
\* matched, rows |-> the <tr> of that table, each [th |-> texts, td |-> texts]].

\* header_cells of rows[0]: its <th>, or its <td> when it has no <th>
SteamHeaderCells(rows) == IF rows[1].th # << >> THEN rows[1].th ELSE rows[1].td

SteamHeaderStep(m, h, i) ==
    LET header_text == Lower(Strip(h)) IN
    IF Contains(header_text, "avg") /\ Contains(header_text, "player") THEN [m EXCEPT !.avg = i]
    ELSE IF Contains(header_text, "peak") /\ Contains(header_text, "player") THEN [m EXCEPT !.peak = i]
    ELSE m

RECURSIVE SteamHeaderPass(_, _)
SteamHeaderPass(cells, n) ==
    IF n = 0 THEN [avg |-> None, peak |-> None]
    ELSE SteamHeaderStep(SteamHeaderPass(cells, n - 1), cells[n], n - 1)

\* avg_col_idx, peak_col_idx of scrape_steamcharts
SteamResolve(cells) ==
    IF Len(cells) >= 3
    THEN LET g == SteamHeaderPass(cells, Len(cells)) IN
         [avg  |-> IF g.avg = None THEN 1 ELSE g.avg,
          peak |-> IF g.peak = None THEN 2 ELSE g.peak]
    ELSE [avg |-> None, peak |-> None]

\* one data row of scrape_steamcharts; a column index past the end of the
\* row raises IndexError, which the row's own except swallows
SteamRowRecords(cols, m, game_name) ==
    IF Len(cols) >= 3
    THEN IF (m.avg # None /\ m.avg >= Len(cols)) \/ (m.peak # None /\ m.peak >= Len(cols))
         THEN << >>
         ELSE LET avg_players == IF m.avg # None THEN Strip(cols[m.avg + 1]) ELSE "0"
                  peak_players == IF m.peak # None THEN Strip(cols[m.peak + 1]) ELSE "0"
                  avg_players_num == ParseNumberSteam(avg_players)
                  peak_players_num == ParseNumberSteam(peak_players)
              IN  IF avg_players_num > 0 \/ peak_players_num > 0
                  THEN << <<Strip(cols[1]), game_name, avg_players_num, peak_players_num>> >>
                  ELSE << >>
    ELSE << >>

RECURSIVE SteamExtractRows(_, _, _, _)
\* the loop over rows[1:], up to row n (row 1 is the header row)
SteamExtractRows(rows, n, m, game_name) ==
    IF n <= 1 THEN << >>
    ELSE SteamExtractRows(rows, n - 1, m, game_name) \o SteamRowRecords(rows[n].td, m, game_name)

\* ------------------------------------------------------------ the inputs

\* config.get_activeplayer_games() and config.get_steam_games(): the names
\* of the catalogs, in catalog order
activeplayer_games == <<"Game A", "Game B">>
steam_games == <<"Steam A", "Steam B">>

MAX_RETRIES == 3

\* page numbers above MaxPageNum are not told apart: the model then follows
\* only the control flow of the loop (page_num stays MaxPageNum + 1, records
\* are no longer accumulated and `overrun` is set)
MaxPageNum == 2

HeaderRow == << >>

TableMain ==
    [id |-> "table_2", class |-> << >>, thead |-> TRUE,
     headers |-> <<"Month", "Average Daily Players", "Peak Players">>,
     rows |-> << HeaderRow, <<"2024-01", "1,500", "3,000">>, <<"2024-02", "0", "0">> >>]

TableOlder ==
    [id |-> "table_2", class |-> << >>, thead |-> TRUE,
     headers |-> <<"Month", "Average Daily Players", "Peak Players">>,
     rows |-> << HeaderRow, <<"2023-12", "2.5K", "4K">>, <<"2023-11">>,
                 <<"2023-10", "900", "-">> >>]

TableSingle ==
    [id |-> "", class |-> <<"wgs-stats-table">>, thead |-> TRUE,
     headers |-> <<"Date", "Players">>,
     rows |-> << HeaderRow, <<" 2024-03 ", "1,200">> >>]

TableStripedNoPeak ==
    [id |-> "", class |-> <<"table", "table-striped">>, thead |-> TRUE,
     headers |-> <<"Month", "Daily Average">>,
     rows |-> << HeaderRow, <<"2024-04", "700">> >>]

TableNoThead ==
    [id |-> "table_2", class |-> << >>, thead |-> FALSE,
     headers |-> << >>,
     rows |-> << <<"2024-05", "800", "900">> >>]

PagNext == Pagination(<< [text |-> "1", href |-> "/game/"], [text |-> "Next", href |-> "?ms_page=2"] >>)
PagNumbered == Pagination(<< [text |-> "1", href |-> "/game/"], [text |-> "2", href |-> "/game/?ms_page=2"] >>)
PagLast == Pagination(<< [text |-> "Previous", href |-> "?ms_page=1"] >>)
PagNoHref == Pagination(<< [text |-> "Previous", href |-> "?ms_page=1"], [text |-> "Next", href |-> NoHref] >>)

\* the documents a fetch of an ActivePlayer page may return
PageDocs ==
    { [tables |-> <<TableMain>>, pagination |-> PagNext],
      [tables |-> <<TableOlder>>, pagination |-> PagLast],
      [tables |-> <<TableMain>>, pagination |-> NoPagination],
      [tables |-> << >>, pagination |-> PagNext],
      [tables |-> <<TableStripedNoPeak>>, pagination |-> PagNext],
      [tables |-> <<TableSingle>>, pagination |-> PagNumbered],
      [tables |-> <<TableNoThead>>, pagination |-> NoPagination],
      [tables |-> <<TableOlder>>, pagination |-> PagNoHref] }

\* what make_request_with_retry gives the page loop: a response, or the
\* exception it re-raises once its attempts are used up
FetchResults ==
    { [raised |-> TRUE] } \cup { [raised |-> FALSE, doc |-> d] : d \in PageDocs }

SteamHeader == [th |-> <<"Month", "Avg. Players", "Gain", "% Gain", "Peak Players">>, td |-> << >>]

\* what one driver.get of the retry loop of scrape_steamcharts may end in
SteamLoads ==
    { [kind |-> "TimeoutException"],
      [kind |-> "Exception"],
      [kind |-> "page", found |-> FALSE, rows |-> << >>],
      [kind |-> "page", found |-> TRUE, rows |-> << >>],
      [kind |-> "page", found |-> TRUE,
       rows |-> << SteamHeader,
                   [th |-> << >>, td |-> <<"Last 30 Days", "1,500.5", "+12.3", "+0.8%", "3,000">>],
                   [th |-> << >>, td |-> <<"January 2024", "0", "-", "-", "2,000">>],
                   [th |-> << >>, td |-> <<"December 2023", "0", "-">>] >>],
      [kind |-> "page", found |-> TRUE,
       rows |-> << [th |-> <<"Month", "Players">>, td |-> << >>],
                   [th |-> << >>, td |-> <<"February 2024", "5", "6">>] >>] }

\* ------------------------------------------------------------- the state

VARIABLES
    mode,              \* sys.argv[1] of main_scraper: "steam", "activeplayer", "combined"
    pc,                \* where the run is
    \* scrape_steam_games / scrape_steamcharts
    s_i,               \* index of the current target in steam_games
    attempt,           \* `attempt` of the retry loop of the current target
    loads,             \* history: what every driver.get of the current target ended in
    delays,            \* history: the time.sleep of the retry loop, current target
    s_data,            \* `data` returned by scrape_steamcharts for the current target
    steam_all_data,    \* `all_data` of scrape_steam_games
    steam_called,      \* history: the targets scrape_steamcharts was called for
    steam_df,          \* what scrape_steam_games returned
    \* scrape_activeplayer_games / scrape_activeplayer
    a_i,               \* index of the current target in activeplayer_games
    page_num,
    data,              \* `data` of scrape_activeplayer
    pages,             \* history: what every page fetch of the current target gave
    overrun,           \* the current target went past MaxPageNum
    all_data,          \* `all_data` of scrape_activeplayer_games
    ap_called,         \* history: the targets scrape_activeplayer was called for
    activeplayer_df,   \* what scrape_activeplayer_games returned
    \* combine_data
    main_all_data,     \* `all_data` of combine_data, as tagged rows
    combined_df,
    \* make_request_with_retry, on its own (FetchSpec)
    f_pc, f_attempt, f_tries, f_requests, f_delays,
    \* the fetcher sessions: requests.Session of create_robust_session, the
    \* webdriver of setup_driver; a session is named by its creation rank
    sessions_created,  \* how many sessions the run has created
    session,           \* `session` of scrape_activeplayer (0: none)
    driver,            \* `driver` of scrape_steam_games (0: None)
    open_sessions,     \* the sessions created and not closed
    session_uses,      \* history: [session, target] of every fetch
    session_closes,    \* history: the sessions closed, in order
    \* parse_number_with_commas, on its own (NormSpec)
    n_pc, n_text, n_ap, n_steam,
    \* the Table Locator and the column resolution, on their own (ResolveSpec)
    r_pc,
    r_table,           \* the one <table> of the page
    r_located,         \* what the chain of soup.find calls gave
    r_generic,         \* avg_idx, peak_idx after the header loop
    r_mapping,         \* avg_idx, peak_idx after the overrides and None checks
    \* the Table Locator, on its own (LocateSpec)
    l_pc,
    l_doc,             \* the parsed page
    l_located,         \* what the chain of soup.find calls gave
    \* the requests and sleeps of the loops
    ap_trace,          \* history: the page requests and inter-page sleeps, current target
    waits              \* history: the sleeps between two targets, [source, after]

steamVars == <<s_i, attempt, loads, delays, s_data, steam_all_data, steam_called, steam_df>>
apVars == <<a_i, page_num, data, pages, overrun, all_data, ap_called, activeplayer_df>>
mainVars == <<main_all_data, combined_df>>
fetchVars == <<f_pc, f_attempt, f_tries, f_requests, f_delays>>
sessVars == <<sessions_created, session, driver, open_sessions, session_uses, session_closes>>
normVars == <<n_pc, n_text, n_ap, n_steam>>
resolveVars == <<r_pc, r_table, r_located, r_generic, r_mapping>>
locateVars == <<l_pc, l_doc, l_located>>
pureVars == <<normVars, resolveVars, locateVars>>
rateVars == <<ap_trace, waits>>
vars == <<mode, pc, steamVars, apVars, mainVars, fetchVars, sessVars, pureVars, rateVars>>

\* a pandas DataFrame with the given rows; Python's None
DataFrame(rows) == [kind |-> "DataFrame", rows |-> rows]
NoneValue == [kind |-> "None"]
NotReturned == [kind |-> "not returned"]

Tagged(rows, source) == [k \in 1..Len(rows) |-> [row |-> rows[k], Source |-> source]]

\* one of the two try blocks of combine_data: `df.empty` of None raises
\* AttributeError, which the except swallows, so nothing is appended
CombineStep(acc, df, source) ==
    IF df.kind # "DataFrame" THEN acc
    ELSE IF df.rows # << >> THEN acc \o Tagged(df.rows, source)
    ELSE acc

Modes == {"steam", "activeplayer", "combined"}

FetchIdle ==
    /\ f_pc = "idle" /\ f_attempt = 0 /\ f_tries = 0 /\ f_requests = 0 /\ f_delays = << >>

NormIdle == n_pc = "idle" /\ n_text = "" /\ n_ap = 0 /\ n_steam = 0

NoIndices == [avg |-> None, peak |-> None]
NoMapping == [ok |-> FALSE, avg |-> None, peak |-> None]

ResolveIdle ==
    /\ r_pc = "idle"
    /\ r_table = [id |-> "", class |-> << >>, thead |-> FALSE, headers |-> << >>, rows |-> << >>]
    /\ r_located = NoTable /\ r_generic = NoIndices /\ r_mapping = NoMapping

NoRequests == ap_trace = << >> /\ waits = {}

LocateIdle ==
    /\ l_pc = "idle" /\ l_doc = [tables |-> << >>, pagination |-> NoPagination]
    /\ l_located = NoTable

NoSessions ==
    /\ sessions_created = 0 /\ session = 0 /\ driver = 0
    /\ open_sessions = {} /\ session_uses = {} /\ session_closes = << >>

Init ==
    /\ mode \in Modes
    /\ pc = IF mode = "activeplayer" THEN "ap_games" ELSE "steam_games"
    /\ s_i = 0 /\ attempt = 0 /\ loads = << >> /\ delays = << >> /\ s_data = << >>
    /\ steam_all_data = << >> /\ steam_called = << >> /\ steam_df = NotReturned
    /\ a_i = 0 /\ page_num = 1 /\ data = << >> /\ pages = << >> /\ overrun = FALSE
    /\ all_data = << >> /\ ap_called = << >> /\ activeplayer_df = NotReturned
    /\ main_all_data = << >> /\ combined_df = NotReturned
    /\ FetchIdle /\ NoSessions /\ NormIdle /\ ResolveIdle /\ NoRequests /\ LocateIdle

\* ---------------------------------------------------------- Steam Charts

\* scrape_steam_games up to the first target: setup_driver() may raise, and
\* the except of scrape_steam_games then returns an empty DataFrame
SteamSetup ==
    /\ pc = "steam_games"
    /\ \E ok \in BOOLEAN :
         IF ok
         THEN /\ pc' = "steam_attempt"
              /\ s_i' = 1
              /\ steam_called' = <<steam_games[1]>>
              /\ steam_df' = steam_df
              /\ sessions_created' = sessions_created + 1
              /\ driver' = sessions_created + 1
              /\ open_sessions' = open_sessions \cup {sessions_created + 1}
         ELSE /\ pc' = "steam_returned"
              /\ steam_df' = DataFrame(<< >>)
              /\ UNCHANGED <<s_i, steam_called, sessions_created, driver, open_sessions>>
    /\ UNCHANGED <<mode, attempt, loads, delays, s_data, steam_all_data, apVars, mainVars, fetchVars,
                   session, session_uses, session_closes, pureVars, rateVars>>

\* the sleep before the next attempt after an exception of kind `kind`
\* ("TimeoutException", anything else) or a missing table
RetrySleep(kind) == IF kind = "TimeoutException" THEN 15 ELSE 10

\* one iteration of `for attempt in range(MAX_RETRIES)` on what driver.get
\* ended in: retry after a sleep, or return
SteamAttemptResult(load, att, game_name) ==
    LET failed == \/ load.kind # "page"
                  \/ ~load.found
                  \/ load.rows = << >>      \* header_cells is unbound: an Exception
        kind == IF load.kind = "page" THEN "Exception" ELSE load.kind
    IN  IF failed
        THEN IF att < MAX_RETRIES - 1
             THEN [return |-> FALSE, data |-> << >>, sleep |-> RetrySleep(kind)]
             ELSE [return |-> TRUE, data |-> << >>, sleep |-> 0]
        ELSE [return |-> TRUE,
              data |-> SteamExtractRows(load.rows, Len(load.rows),
                                        SteamResolve(SteamHeaderCells(load.rows)), game_name),
              sleep |-> 0]

SteamAttempt ==
    /\ pc = "steam_attempt"
    /\ \E load \in SteamLoads :
         LET r == SteamAttemptResult(load, attempt, steam_games[s_i]) IN
         /\ loads' = Append(loads, load)
         /\ session_uses' = session_uses \cup {[session |-> driver, target |-> steam_games[s_i]]}
         /\ IF r.return
            THEN /\ pc' = "steam_return"
                 /\ s_data' = r.data
                 /\ UNCHANGED <<attempt, delays>>
            ELSE /\ attempt' = attempt + 1
                 /\ delays' = Append(delays, r.sleep)
                 /\ UNCHANGED <<pc, s_data>>
    /\ UNCHANGED <<mode, s_i, steam_all_data, steam_called, steam_df, apVars, mainVars, fetchVars,
                   sessions_created, session, driver, open_sessions, session_closes, pureVars, rateVars>>

\* `if i < total_games: random_delay()` at the end of an iteration of the
\* loop of scrape_steam_games: the sleeps it adds after target i
SteamInterTargetDelay(i, total_games) ==
    IF i < total_games THEN {[source |-> "Steam Charts", after |-> i]} ELSE {}

\* `if i < len(activeplayer_games): pass` ("Removed random_delay()") at the
\* end of an iteration of the loop of scrape_activeplayer_games
ActivePlayerInterTargetDelay(i, total_games) == {}

\* scrape_steamcharts returns; the loop of scrape_steam_games extends
\* all_data, sleeps and goes on to the next target
SteamReturn ==
    /\ pc = "steam_return"
    /\ steam_all_data' = steam_all_data \o s_data
    /\ attempt' = 0 /\ loads' = << >> /\ delays' = << >> /\ s_data' = << >>
    /\ waits' = waits \cup SteamInterTargetDelay(s_i, Len(steam_games))
    /\ IF s_i < Len(steam_games)
       THEN /\ s_i' = s_i + 1
            /\ steam_called' = Append(steam_called, steam_games[s_i + 1])
            /\ pc' = "steam_attempt"
       ELSE /\ pc' = "steam_save"
            /\ UNCHANGED <<s_i, steam_called>>
    /\ UNCHANGED <<mode, steam_df, apVars, mainVars, fetchVars, sessVars, pureVars, ap_trace>>

\* the end of scrape_steam_games: the DataFrame of all_data (empty if none),
\* and driver.quit() in the finally clause
SteamSave ==
    /\ pc = "steam_save"
    /\ steam_df' = DataFrame(steam_all_data)
    /\ pc' = "steam_returned"
    /\ open_sessions' = open_sessions \ {driver}
    /\ session_closes' = Append(session_closes, driver)
    /\ UNCHANGED <<mode, s_i, attempt, loads, delays, s_data, steam_all_data, steam_called,
                   apVars, mainVars, fetchVars, sessions_created, session, driver, session_uses,
                   pureVars, rateVars>>

\* back in main_scraper: run_steam_only is done; combine_data appends the
\* Steam frame and calls scrape_activeplayer_games
SteamReturned ==
    /\ pc = "steam_returned"
    /\ IF mode = "steam"
       THEN /\ pc' = "done"
            /\ UNCHANGED main_all_data
       ELSE /\ pc' = "ap_games"
            /\ main_all_data' = CombineStep(main_all_data, steam_df, "Steam Charts")
    /\ UNCHANGED <<mode, steamVars, apVars, combined_df, fetchVars, sessVars, pureVars, rateVars>>

\* ----------------------------------------------------------- ActivePlayer

\* scrape_activeplayer_games up to the first call of scrape_activeplayer,
\* which opens with session = create_robust_session()
APGames ==
    /\ pc = "ap_games"
    /\ a_i' = 1
    /\ ap_called' = <<activeplayer_games[1]>>
    /\ pc' = "ap_page"
    /\ sessions_created' = sessions_created + 1
    /\ session' = sessions_created + 1
    /\ open_sessions' = open_sessions \cup {sessions_created + 1}
    /\ UNCHANGED <<mode, steamVars, page_num, data, pages, overrun, all_data, activeplayer_df,
                   mainVars, fetchVars, driver, session_uses, session_closes, pureVars, rateVars>>

\* PageStep without the `except Exception` of the loop body
PageStepPropagates(res, pn, game_name) ==
    IF res.raised
    THEN [records |-> << >>, continue |-> FALSE, propagate |-> TRUE]
    ELSE LET r == ProcessPage(res.doc, pn, game_name) IN
         [records |-> r.records, continue |-> r.continue, propagate |-> FALSE]

\* PageStep with `continue` in place of `break` in the except clause
PageStepContinuesAfterError(res, pn, game_name) ==
    IF res.raised
    THEN [records |-> << >>, continue |-> TRUE, propagate |-> FALSE]
    ELSE LET r == ProcessPage(res.doc, pn, game_name) IN
         [records |-> r.records, continue |-> r.continue, propagate |-> FALSE]

\* one iteration of `while True` on the result of the fetch: an exception
\* anywhere in the body is caught by `except Exception` and breaks the loop
\* (propagate = FALSE: nothing escapes scrape_activeplayer)
PageStep(res, pn, game_name) ==
    IF res.raised
    THEN [records |-> << >>, continue |-> FALSE, propagate |-> FALSE]
    ELSE LET r == ProcessPage(res.doc, pn, game_name) IN
         [records |-> r.records, continue |-> r.continue, propagate |-> FALSE]

\* url and current_url of scrape_activeplayer (the slug of the model's
\* targets is their name)
BaseUrl(game_name) == "https://activeplayer.io/" \o game_name \o "/"

\* CurrentUrl asking for the base URL whatever the page number
CurrentUrlIgnoresPage(url, pn) == url

CurrentUrl(url, pn) == IF pn = 1 THEN url ELSE url \o "?ms_page=" \o Str(pn)

\* InterPageSleeps testing page_num > 2
InterPageSleepsFromThirdPage(pn) ==
    IF pn > 2 THEN << [kind |-> "sleep", page_num |-> pn, url |-> ""] >> ELSE << >>

\* `if page_num > 1: time.sleep(random.uniform(1, 3))`, on the page number
\* already incremented: the sleeps at the end of a loop iteration
InterPageSleeps(pn) ==
    IF pn > 1 THEN << [kind |-> "sleep", page_num |-> pn, url |-> ""] >> ELSE << >>

\* page_num += 1; above MaxPageNum only the parity of the page number is kept
NextPageNum(pn) == IF pn < MaxPageNum + 2 THEN pn + 1 ELSE MaxPageNum + 1

APPage ==
    /\ pc = "ap_page"
    /\ \E res \in FetchResults : \E r \in {PageStep(res, page_num, activeplayer_games[a_i])} :
         LET within == page_num <= MaxPageNum
             request == [kind |-> "request", page_num |-> page_num,
                         url |-> CurrentUrl(BaseUrl(activeplayer_games[a_i]), page_num)]
         IN  /\ pages' = IF within THEN Append(pages, res) ELSE pages
             /\ ap_trace' = IF ~within THEN ap_trace
                            ELSE IF r.continue /\ ~r.propagate
                            THEN Append(ap_trace, request) \o InterPageSleeps(page_num + 1)
                            ELSE Append(ap_trace, request)
             /\ session_uses' = session_uses \cup
                                   {[session |-> session, target |-> activeplayer_games[a_i]]}
             /\ data' = IF within THEN data \o r.records ELSE data
             /\ overrun' = (overrun \/ ~within)
             /\ IF r.propagate
                \* no handler in scrape_activeplayer_games: combine_data catches
                \* the exception, run_activeplayer_only does not
                THEN /\ pc' = IF mode = "combined" THEN "combine" ELSE "crashed"
                     /\ UNCHANGED page_num
                ELSE IF r.continue
                THEN /\ page_num' = NextPageNum(page_num)
                     /\ UNCHANGED pc
                ELSE /\ pc' = "ap_return"
                     /\ UNCHANGED page_num
    /\ UNCHANGED <<mode, steamVars, a_i, all_data, ap_called, activeplayer_df, mainVars, fetchVars,
                   sessions_created, session, driver, open_sessions, session_closes, pureVars,
                   waits>>

\* session.close(); return data; the loop of scrape_activeplayer_games
\* extends all_data and calls scrape_activeplayer for the next target, which
\* creates the session of that target
APReturn ==
    /\ pc = "ap_return"
    /\ all_data' = all_data \o data
    /\ page_num' = 1 /\ data' = << >> /\ pages' = << >> /\ overrun' = FALSE
    /\ session_closes' = Append(session_closes, session)
    /\ ap_trace' = << >>
    /\ waits' = waits \cup ActivePlayerInterTargetDelay(a_i, Len(activeplayer_games))
    /\ IF a_i < Len(activeplayer_games)
       THEN /\ a_i' = a_i + 1
            /\ ap_called' = Append(ap_called, activeplayer_games[a_i + 1])
            /\ pc' = "ap_page"
            /\ sessions_created' = sessions_created + 1
            /\ session' = sessions_created + 1
            /\ open_sessions' = (open_sessions \ {session}) \cup {sessions_created + 1}
       ELSE /\ pc' = "ap_save"
            /\ open_sessions' = open_sessions \ {session}
            /\ UNCHANGED <<a_i, ap_called, sessions_created, session>>
    /\ UNCHANGED <<mode, steamVars, activeplayer_df, mainVars, fetchVars, driver, session_uses,
                   pureVars>>

\* what scrape_activeplayer_games returns: it has no return statement
ActivePlayerGamesResult(rows) == NoneValue

\* the end of scrape_activeplayer_games (the CSV is written from all_data)
APSave ==
    /\ pc = "ap_save"
    /\ activeplayer_df' = ActivePlayerGamesResult(all_data)
    /\ pc' = IF mode = "combined" THEN "combine" ELSE "done"
    /\ UNCHANGED <<mode, steamVars, a_i, page_num, data, pages, overrun, all_data, ap_called,
                   mainVars, fetchVars, sessVars, pureVars, rateVars>>

\* the second try block of combine_data and the concat of what was appended
Combine ==
    /\ pc = "combine"
    /\ main_all_data' = CombineStep(main_all_data, activeplayer_df, "ActivePlayer")
    /\ combined_df' = DataFrame(main_all_data')
    /\ pc' = "done"
    /\ UNCHANGED <<mode, steamVars, apVars, fetchVars, sessVars, pureVars, rateVars>>

Next ==
    \/ SteamSetup
    \/ SteamAttempt
    \/ SteamReturn
    \/ SteamSave
    \/ SteamReturned
    \/ APGames
    \/ APPage
    \/ APReturn
    \/ APSave
    \/ Combine

Spec == Init /\ [][Next]_vars

\* the exit status of `python main_scraper.py <mode>`: the script never calls
\* sys.exit, so the interpreter exits with 0 when the module body ends and
\* with 1 when an exception escapes it
ExitStatus == IF pc = "crashed" THEN 1 ELSE 0

\* the run is one sequential process: it keeps taking steps while it can
FairSpec == Init /\ [][Next]_vars /\ WF_vars(Next)

\* ------------------------------------------------------- the stop signal

\* SIGINT between two targets or two pages: Python raises KeyboardInterrupt
\* in the running frame.  It is a BaseException, so no `except Exception`
\* of the scrapers or of combine_data catches it: only the finally clause of
\* scrape_steam_games runs (driver.quit()), session.close() of
\* scrape_activeplayer is skipped, and the interpreter exits.
Interrupt ==
    /\ \/ pc = "steam_attempt" /\ loads = << >>
       \/ pc = "ap_page"
    /\ pc' = "interrupted"
    /\ IF pc = "steam_attempt"
       THEN /\ open_sessions' = open_sessions \ {driver}
            /\ session_closes' = Append(session_closes, driver)
       ELSE UNCHANGED <<open_sessions, session_closes>>
    /\ UNCHANGED <<mode, steamVars, apVars, mainVars, fetchVars, sessions_created, session,
                   driver, session_uses, pureVars, rateVars>>

StopNext == Next \/ Interrupt

StopSpec == Init /\ [][StopNext]_vars

\* the rows of the CSV files the run has written: scrape_steam_games writes
\* steam_monthly_player_counts.csv from a non-empty all_data just before it
\* returns, scrape_activeplayer_games writes its file when its loop is over
SteamCsv == IF steam_df.kind = "DataFrame" THEN steam_df.rows ELSE << >>
ActivePlayerCsv == IF activeplayer_df.kind = "not returned" THEN << >> ELSE all_data

\* ------------------------------------------- make_request_with_retry alone

max_retries == 3
base_delay == 2
\* Retry(total=3) of the adapter mounted by create_robust_session
RetryTotal == 3

\* what one HTTP request may end in: a 2xx response, a timeout, a connection
\* error, a status of status_forcelist (429, 500, 502, 503, 504), another
\* error status (404)
RequestOutcomes == {"ok", "timeout", "connection", "forcelist", "status"}

\* random.uniform(0, 1), in tenths of a second
Jitters == {0, 5, 10}

RECURSIVE Pow2(_)
Pow2(n) == IF n = 0 THEN 1 ELSE 2 * Pow2(n - 1)

\* base_delay * (2 ** attempt) + random.uniform(0, 1), in tenths
BackoffDelay(att, jitter) == 10 * base_delay * Pow2(att) + jitter

\* one request sent by session.get within attempt `att`, the adapter having
\* retried `tries` times in this session.get: the adapter sends the request
\* again (timeouts, connection errors and forcelist statuses, while retries
\* are left), or session.get / raise_for_status raises and the except
\* clauses sleep and go to the next attempt, or re-raise on the last one
FetchStep(outcome, att, tries) ==
    IF outcome = "ok" THEN "returned"
    ELSE IF outcome # "status" /\ tries < RetryTotal THEN "adapter_retry"
    ELSE IF att < max_retries - 1 THEN "sleep_retry"
    ELSE "raised"

FRequest ==
    /\ f_pc = "get"
    /\ \E outcome \in RequestOutcomes, jitter \in Jitters :
         LET step == FetchStep(outcome, f_attempt, f_tries) IN
         /\ f_requests' = f_requests + 1
         /\ f_pc' = IF step \in {"returned", "raised"} THEN step ELSE "get"
         /\ f_tries' = IF step = "adapter_retry" THEN f_tries + 1
                       ELSE IF step = "sleep_retry" THEN 0 ELSE f_tries
         /\ f_attempt' = IF step = "sleep_retry" THEN f_attempt + 1 ELSE f_attempt
         /\ f_delays' = IF step = "sleep_retry"
                        THEN Append(f_delays, BackoffDelay(f_attempt, jitter))
                        ELSE f_delays
    /\ UNCHANGED <<mode, pc, steamVars, apVars, mainVars, sessVars, pureVars, rateVars>>

\* a page fetch of scrape_activeplayer: make_request_with_retry(session, url)
FetchInit ==
    /\ mode = "activeplayer" /\ pc = "ap_page"
    /\ s_i = 0 /\ attempt = 0 /\ loads = << >> /\ delays = << >> /\ s_data = << >>
    /\ steam_all_data = << >> /\ steam_called = << >> /\ steam_df = NotReturned
    /\ a_i = 1 /\ page_num \in 1..MaxPageNum /\ data = << >> /\ pages = << >> /\ overrun = FALSE
    /\ all_data = << >> /\ ap_called = <<activeplayer_games[1]>> /\ activeplayer_df = NotReturned
    /\ main_all_data = << >> /\ combined_df = NotReturned
    /\ f_pc = "get" /\ f_attempt = 0 /\ f_tries = 0 /\ f_requests = 0 /\ f_delays = << >>
    /\ sessions_created = 1 /\ session = 1 /\ driver = 0
    /\ open_sessions = {1} /\ session_uses = {} /\ session_closes = << >>
    /\ NormIdle /\ ResolveIdle /\ NoRequests /\ LocateIdle

FetchNext == FRequest

FetchSpec == FetchInit /\ [][FetchNext]_vars

\* ------------------------------------------ parse_number_with_commas alone

\* the cell texts given to the normalizers: optional surrounding space, an
\* optional sign, a body, an optional '%' or magnitude suffix.  The bodies
\* put before 'm' and 'b' are small enough for the product to stay in range.
Leads == {"", " "}
Signs == {"", "+", "-"}
Bodies == {"", "0", "7", "1,234", "2.5", "15.3", "872.4", ".5", "1.2.3", "n/a"}
MillionBodies == {"", "0", "1.2", "2.5", "x"}
BillionBodies == {"", "0", "0.1"}
Trails == {"", " "}

Compose(bodies, suffixes) ==
    { lead \o sign \o body \o suf \o trail :
        lead \in Leads, sign \in Signs, body \in bodies, suf \in suffixes, trail \in Trails }

Texts ==
    Compose(Bodies, {"", "%", "k", "K"})
        \cup Compose(MillionBodies, {"m", "M"})
        \cup Compose(BillionBodies, {"b", "B"})

NormInit ==
    /\ mode = "activeplayer" /\ pc = "ap_page"
    /\ s_i = 0 /\ attempt = 0 /\ loads = << >> /\ delays = << >> /\ s_data = << >>
    /\ steam_all_data = << >> /\ steam_called = << >> /\ steam_df = NotReturned
    /\ a_i = 1 /\ page_num = 1 /\ data = << >> /\ pages = << >> /\ overrun = FALSE
    /\ all_data = << >> /\ ap_called = <<activeplayer_games[1]>> /\ activeplayer_df = NotReturned
    /\ main_all_data = << >> /\ combined_df = NotReturned
    /\ FetchIdle /\ ResolveIdle /\ NoRequests /\ LocateIdle
    /\ sessions_created = 1 /\ session = 1 /\ driver = 0
    /\ open_sessions = {1} /\ session_uses = {} /\ session_closes = << >>
    /\ n_pc = "input" /\ n_text \in Texts /\ n_ap = 0 /\ n_steam = 0

\* activeplayer_scraper.parse_number_with_commas(n_text)
NormalizeAP ==
    /\ n_pc = "input"
    /\ n_ap' = ParseNumberAP(n_text)
    /\ n_pc' = "ap_done"
    /\ UNCHANGED <<mode, pc, steamVars, apVars, mainVars, fetchVars, sessVars, rateVars, resolveVars, locateVars,
                   n_text, n_steam>>

\* steamdb_scraper.parse_number_with_commas(n_text)
NormalizeSteam ==
    /\ n_pc = "ap_done"
    /\ n_steam' = ParseNumberSteam(n_text)
    /\ n_pc' = "done"
    /\ UNCHANGED <<mode, pc, steamVars, apVars, mainVars, fetchVars, sessVars, rateVars, resolveVars, locateVars,
                   n_text, n_ap>>

NormNext == NormalizeAP \/ NormalizeSteam

NormSpec == NormInit /\ [][NormNext]_vars

\* ------------------------- the Table Locator and the column resolution alone

\* the longest header row drawn
MaxHeaders == 3

\* texts of the <th> of a thead
HeaderTexts ==
    {"Month", "Players", "Peak Players", " Max Concurrent Players ", "Daily Average",
     "Estimated Players"}

RECURSIVE HeaderSeqs(_)
\* the header rows of at most n cells
HeaderSeqs(n) ==
    IF n = 0 THEN { << >> }
    ELSE HeaderSeqs(n - 1) \cup { Append(hs, h) : hs \in HeaderSeqs(n - 1), h \in HeaderTexts }

\* id, class list and presence of a thead of the <table> elements drawn: one
\* per layout signature, and tables carrying the attributes of two layouts
TableAttrs ==
    { [id |-> "table_2", class |-> << >>, thead |-> TRUE],
      [id |-> "table_2", class |-> <<"wgs-stats-table">>, thead |-> TRUE],
      [id |-> "table_3", class |-> << >>, thead |-> TRUE],
      [id |-> "", class |-> <<"steam-stats-table">>, thead |-> TRUE],
      [id |-> "", class |-> <<"steam-stats-table", "table-striped">>, thead |-> TRUE],
      [id |-> "", class |-> <<"asdrm-monthly-stats-table">>, thead |-> TRUE],
      [id |-> "", class |-> <<"gst-data-table">>, thead |-> TRUE],
      [id |-> "", class |-> <<"wgs-stats-table">>, thead |-> TRUE],
      [id |-> "", class |-> <<"table", "table-striped">>, thead |-> TRUE],
      [id |-> "", class |-> <<"table", "table-striped">>, thead |-> FALSE],
      [id |-> "", class |-> <<"data">>, thead |-> TRUE] }

TableOf(a, headers) ==
    [id |-> a.id, class |-> a.class, thead |-> a.thead,
     headers |-> IF a.thead THEN headers ELSE << >>, rows |-> << HeaderRow >>]

\* the page holding the one table t
PageOf(t) == [tables |-> <<t>>, pagination |-> NoPagination]

ResolveInit ==
    /\ mode = "activeplayer" /\ pc = "ap_page"
    /\ s_i = 0 /\ attempt = 0 /\ loads = << >> /\ delays = << >> /\ s_data = << >>
    /\ steam_all_data = << >> /\ steam_called = << >> /\ steam_df = NotReturned
    /\ a_i = 1 /\ page_num = 1 /\ data = << >> /\ pages = << >> /\ overrun = FALSE
    /\ all_data = << >> /\ ap_called = <<activeplayer_games[1]>> /\ activeplayer_df = NotReturned
    /\ main_all_data = << >> /\ combined_df = NotReturned
    /\ FetchIdle /\ NormIdle /\ NoRequests /\ LocateIdle
    /\ sessions_created = 1 /\ session = 1 /\ driver = 0
    /\ open_sessions = {1} /\ session_uses = {} /\ session_closes = << >>
    /\ r_pc = "fetched"
    /\ \E a \in TableAttrs, hs \in HeaderSeqs(MaxHeaders) : r_table = TableOf(a, hs)
    /\ r_located = NoTable /\ r_generic = NoIndices /\ r_mapping = NoMapping

\* the chain of soup.find calls, `if not table: break`, and
\* `if not header: break`
LocateTable ==
    /\ r_pc = "fetched"
    /\ r_located' = Locate(PageOf(r_table))
    /\ r_pc' = IF r_located'.found /\ r_located'.table.thead THEN "located" ELSE "stopped"
    /\ UNCHANGED <<mode, pc, steamVars, apVars, mainVars, fetchVars, sessVars, rateVars, normVars, locateVars,
                   r_table, r_generic, r_mapping>>

\* the loop over enumerate(header_cells)
GenericPass ==
    /\ r_pc = "located"
    /\ r_generic' = HeaderPass(HeaderCells(r_located.table), Len(r_located.table.headers))
    /\ r_pc' = "headers_read"
    /\ UNCHANGED <<mode, pc, steamVars, apVars, mainVars, fetchVars, sessVars, rateVars, normVars, locateVars,
                   r_table, r_located, r_mapping>>

\* the override chain and the two None checks
Override ==
    /\ r_pc = "headers_read"
    /\ r_mapping' = Resolve(r_located.table)
    /\ r_pc' = IF r_mapping'.ok THEN "resolved" ELSE "stopped"
    /\ UNCHANGED <<mode, pc, steamVars, apVars, mainVars, fetchVars, sessVars, rateVars, normVars, locateVars,
                   r_table, r_located, r_generic>>

ResolveNext == LocateTable \/ GenericPass \/ Override

ResolveSpec == ResolveInit /\ [][ResolveNext]_vars

\* ------------------------------------------------ the Table Locator alone

\* the most <table> elements of a page drawn
MaxTables == 2

RECURSIVE TableSeqs(_)
\* the pages' table lists of at most n tables, in document order
TableSeqs(n) ==
    IF n = 0 THEN { << >> }
    ELSE TableSeqs(n - 1) \cup
         { Append(ts, TableOf(a, <<"Month", "Players">>)) : ts \in TableSeqs(n - 1), a \in TableAttrs }

LocateInit ==
    /\ mode = "activeplayer" /\ pc = "ap_page"
    /\ s_i = 0 /\ attempt = 0 /\ loads = << >> /\ delays = << >> /\ s_data = << >>
    /\ steam_all_data = << >> /\ steam_called = << >> /\ steam_df = NotReturned
    /\ a_i = 1 /\ page_num = 1 /\ data = << >> /\ pages = << >> /\ overrun = FALSE
    /\ all_data = << >> /\ ap_called = <<activeplayer_games[1]>> /\ activeplayer_df = NotReturned
    /\ main_all_data = << >> /\ combined_df = NotReturned
    /\ FetchIdle /\ NormIdle /\ ResolveIdle /\ NoRequests
    /\ sessions_created = 1 /\ session = 1 /\ driver = 0
    /\ open_sessions = {1} /\ session_uses = {} /\ session_closes = << >>
    /\ l_pc = "fetched"
    /\ \E ts \in TableSeqs(MaxTables) : l_doc = [tables |-> ts, pagination |-> NoPagination]
    /\ l_located = NoTable

\* the chain of soup.find calls and `if not table: break`
LocateInPage ==
    /\ l_pc = "fetched"
    /\ l_located' = Locate(l_doc)
    /\ l_pc' = IF l_located'.found THEN "located" ELSE "not_found"
    /\ UNCHANGED <<mode, pc, steamVars, apVars, mainVars, fetchVars, sessVars, rateVars,
                   normVars, resolveVars, l_doc>>

LocateNext == LocateInPage

LocateSpec == LocateInit /\ [][LocateNext]_vars

\* ------------------------------------------------------------- the claims

IsPrefix(a, b) == Len(a) <= Len(b) /\ a = SubSeq(b, 1, Len(a))

\* a fetched page with a locatable table (with a header) and resolvable columns
WellFormed(res) ==
    /\ ~res.raised
    /\ Locate(res.doc).found
    /\ Locate(res.doc).table.thead
    /\ Resolve(Locate(res.doc).table).ok

\* the valid records of a fetched page: none unless the page is well formed
ValidRecords(res, game_name) ==
    IF WellFormed(res)
    THEN LET t == Locate(res.doc).table IN ExtractRows(t.rows, Len(t.rows), Resolve(t), game_name)
    ELSE << >>

RECURSIVE RecordsOfPages(_, _, _)
\* the valid records of pages 1..n of the history, in page order
RecordsOfPages(pgs, n, game_name) ==
    IF n = 0 THEN << >>
    ELSE RecordsOfPages(pgs, n - 1, game_name) \o ValidRecords(pgs[n], game_name)

CurrentGame == activeplayer_games[a_i]

\* the records of what a driver.get ended in: those of the rows of the table
\* it loaded, none when it loaded none
SteamRecordsOfLoad(load, game_name) ==
    IF load.kind = "page" /\ load.found /\ load.rows # << >>
    THEN SteamExtractRows(load.rows, Len(load.rows), SteamResolve(SteamHeaderCells(load.rows)),
                          game_name)
    ELSE << >>

\* C1: processing a target never lets an error escape to the per-target loop
\* (the run never crashes), what a target returns is the record sequence
\* accumulated from its pages, the targets are attempted in catalog order, and
\* once the loop of a source is over every target of its catalog was attempted.
C1_EveryTargetAttempted ==
    /\ pc # "crashed"
    /\ IsPrefix(ap_called, activeplayer_games)
    /\ IsPrefix(steam_called, steam_games)
    /\ (pc \in {"ap_save", "combine", "done"} /\ mode # "steam") => ap_called = activeplayer_games
    /\ (s_i > 0 /\ pc \notin {"steam_attempt", "steam_return"}) => steam_called = steam_games
    /\ (pc = "ap_return" /\ ~overrun) => data = RecordsOfPages(pages, Len(pages), CurrentGame)
    /\ (pc = "steam_return") => s_data = SteamRecordsOfLoad(loads[Len(loads)], steam_games[s_i])

C1_Witness ==
    /\ pc = "ap_return" /\ a_i = Len(activeplayer_games)
    /\ all_data = << >>
    /\ pages # << >> /\ pages[Len(pages)].raised
    /\ ap_called = activeplayer_games

\* C2: the pagination loop of a target terminates: a target whose pages are
\* being fetched is eventually returned from.
C2_PaginationTerminates == (pc = "ap_page") ~> (pc = "ap_return")

Positive(rows) == \A k \in 1..Len(rows) : rows[k][3] > 0 /\ rows[k][4] > 0

\* C3: no record with average 0 or peak 0 is in the output of either source.
C3_NoZeroRecords ==
    /\ Positive(data) /\ Positive(all_data)
    /\ Positive(s_data) /\ Positive(steam_all_data)

\* C4: in combined mode the records of every source that collected some are
\* in the combined result, those of ActivePlayer together with those of Steam.
C4_CombinedHasEverySource ==
    (pc = "done" /\ mode = "combined") =>
        /\ \A k \in 1..Len(steam_all_data) :
              InSeq([row |-> steam_all_data[k], Source |-> "Steam Charts"], combined_df.rows)
        /\ \A k \in 1..Len(all_data) :
              InSeq([row |-> all_data[k], Source |-> "ActivePlayer"], combined_df.rows)

\* C5: when the fetch of page n fails, no further page of the target is
\* fetched and the target returns the valid records of pages 1..n-1 (none
\* when n = 1).
C5_FetchFailureKeepsPriorPages ==
    \A n \in 1..Len(pages) :
        pages[n].raised =>
            /\ n = Len(pages)
            /\ pc = "ap_return"
            /\ page_num = n
            /\ data = RecordsOfPages(pages, n - 1, CurrentGame)
            /\ (n = 1 => data = << >>)

C5_Witness ==
    /\ pc = "ap_return"
    /\ Len(pages) = 2 /\ pages[2].raised
    /\ data # << >>

\* C6: a permanently failing endpoint gets exactly MAX_RETRIES requests for a
\* page before the failure is surfaced.
C6_ExactlyMaxRetriesRequests == (f_pc = "raised") => (f_requests = MAX_RETRIES)

NonDecreasing(ds) == \A k \in 1..(Len(ds) - 1) : ds[k] <= ds[k + 1]

\* C7: the delays slept between the attempts for one page never decrease.
C7_DelaysNonDecreasing == NonDecreasing(delays) /\ NonDecreasing(f_delays)

\* C8: a page that was loaded (whatever its content) is never requested again.
C8_NoRefetchAfterContent == \A k \in 1..(Len(loads) - 1) : loads[k].kind # "page"

\* C9: a first page with a locatable table, resolvable columns and no
\* pagination control is the only page fetched, and the target returns
\* exactly its valid records.
C9_SinglePage ==
    (pages # << >> /\ WellFormed(pages[1]) /\ ~pages[1].doc.pagination.present) =>
        /\ Len(pages) = 1
        /\ pc = "ap_return"
        /\ page_num = 1
        /\ data = ValidRecords(pages[1], CurrentGame)

C9_Witness ==
    /\ pages # << >> /\ WellFormed(pages[1]) /\ ~pages[1].doc.pagination.present
    /\ pc = "ap_return"
    /\ data # << >>

\* a link of the pagination control whose text contains 'Next' or whose href
\* references page k + 1
NextAffordance(res, k) ==
    /\ res.doc.pagination.present
    /\ \E i \in 1..Len(res.doc.pagination.links) :
          LET a == res.doc.pagination.links[i] IN
          /\ a.href # NoHref
          /\ (Contains(a.text, "Next") \/ Contains(a.href, "ms_page=" \o Str(k + 1)))

\* C10: while every (well-formed) page fetched so far carries a control with a
\* 'next' affordance the following page is fetched; once page n carries a
\* control without one, the target stops at page n and returns the valid
\* records of pages 1..n in page order.
C10_PaginationFollowed ==
    LET n == Len(pages) IN
    (/\ n >= 1 /\ ~overrun
     /\ \A i \in 1..n : WellFormed(pages[i]) /\ pages[i].doc.pagination.present
     /\ \A i \in 1..(n - 1) : NextAffordance(pages[i], i)) =>
        IF NextAffordance(pages[n], n)
        THEN pc = "ap_page" /\ page_num = n + 1
        ELSE /\ pc = "ap_return" /\ page_num = n
             /\ data = RecordsOfPages(pages, n, CurrentGame)

C10_Witness ==
    /\ Len(pages) = 2 /\ pc = "ap_return"
    /\ \A i \in 1..2 : WellFormed(pages[i]) /\ pages[i].doc.pagination.present
    /\ NextAffordance(pages[1], 1) /\ ~NextAffordance(pages[2], 2)
    /\ \A i \in 1..Len(pages[1].doc.pagination.links) :
          ~Contains(pages[1].doc.pagination.links[i].text, "Next")
    /\ Len(data) = 2

\* C11: when no layout signature matches on page n, no further page of the
\* target is fetched and the target returns the valid records of pages
\* 1..n-1 (none when n = 1).
C11_NoLayoutStops ==
    \A n \in 1..Len(pages) :
        (~pages[n].raised /\ ~Locate(pages[n].doc).found) =>
            /\ n = Len(pages)
            /\ pc = "ap_return"
            /\ page_num = n
            /\ data = RecordsOfPages(pages, n - 1, CurrentGame)
            /\ (n = 1 => data = << >>)

C11_Witness ==
    /\ pc = "ap_return"
    /\ Len(pages) = 2 /\ ~pages[2].raised /\ ~Locate(pages[2].doc).found
    /\ data # << >>

\* C12: every target has a fetcher session of its own: no session fetches
\* for two targets, all the fetches for a target go through one session, a
\* session is closed at most once, and the sessions of the targets already
\* returned from are closed before the next target is fetched for.
C12_SessionPerTarget ==
    /\ \A u \in session_uses, v \in session_uses :
          (u.session = v.session) <=> (u.target = v.target)
    /\ \A j \in 1..Len(session_closes), k \in 1..Len(session_closes) :
          session_closes[j] = session_closes[k] => j = k
    /\ \A u \in session_uses :
          u.session \in open_sessions =>
              \/ (pc \in {"ap_page", "ap_return"} /\ u.target = activeplayer_games[a_i])
              \/ (pc \in {"steam_attempt", "steam_return"} /\ u.target = steam_games[s_i])

Signed(text) == StartsWith(Strip(text), "+") \/ StartsWith(Strip(text), "-")

\* C13: both normalizers return 0.0 for every text that, stripped, begins
\* with '+' or '-'.
C13_SignedIsZero ==
    Signed(n_text) =>
        /\ (n_pc \in {"ap_done", "done"} => n_ap = 0)
        /\ (n_pc = "done" => n_steam = 0)

\* the multiplier of the magnitude suffix c (a one-character string)
Magnitude(c) ==
    IF c \in {"k", "K"} THEN 1000
    ELSE IF c \in {"m", "M"} THEN 1000000
    ELSE IF c \in {"b", "B"} THEN 1000000000
    ELSE 1

\* s is an unsigned decimal number with optional thousands separators
PlainNumber(s) == UnsignedFloat(RemoveChar(s, ",")).ok
PlainValue(s) == UnsignedFloat(RemoveChar(s, ",")).val

\* C14: both normalizers read an unsigned number followed by k, m or b (in
\* either case) as the number times 1e3, 1e6, 1e9, and an unsigned number
\* without suffix as the number itself, thousands separators removed.
C14_MagnitudeSuffix ==
    LET s    == Strip(n_text)
        last == IF s = "" THEN "" ELSE CharAt(s, Len(s))
        want == IF PlainNumber(s) THEN PlainValue(s)
                ELSE PlainValue(DropLast(s)) * Magnitude(last)
    IN  (n_pc = "done" /\ s # ""
         /\ (PlainNumber(s) \/ (Magnitude(last) # 1 /\ PlainNumber(DropLast(s))))) =>
            (n_ap = want /\ n_steam = want)

\* C15: the two parse_number_with_commas return the same value for every
\* text.
C15_NormalizersAgree == (n_pc = "done") => (n_ap = n_steam)

\* C16: a run that ends with zero records collected over all targets and
\* sources exits with a non-zero status, a run with at least one record
\* exits with 0, in each of the three modes.
C16_ExitStatusReflectsRecords ==
    (pc \in {"done", "crashed"}) =>
        (ExitStatus = 0 <=> Len(steam_all_data) + Len(all_data) > 0)

\* the layouts with one metric column
SingleMetric ==
    {"table_3", "asdrm-monthly-stats-table", "gst-data-table", "wgs-stats-table"}

\* C17: for a table located by a single-metric signature, whenever the
\* column resolution succeeds the average index and the peak index are the
\* same column, whatever the header row (a separate peak column included).
C17_SingleMetricAliases ==
    (r_pc = "resolved" /\ r_located.signature \in SingleMetric) =>
        (r_mapping.ok /\ r_mapping.avg = r_mapping.peak /\ r_mapping.avg = r_generic.avg)

C17_Witness ==
    /\ r_pc = "resolved" /\ r_located.signature = "wgs-stats-table"
    /\ r_generic.peak # None /\ r_generic.avg # None /\ r_generic.peak # r_generic.avg
    /\ r_mapping.avg = r_mapping.peak

\* C18: when the generic pass leaves the average or the peak index unset for
\* a table located as "table table-striped" on page n, no row of page n is
\* extracted, no further page is fetched and the target returns the valid
\* records of pages 1..n-1.
C18_StripedNeedsBoth ==
    \A n \in 1..Len(pages) :
        LET loc == IF pages[n].raised THEN NoTable ELSE Locate(pages[n].doc)
            g   == HeaderPass(HeaderCells(loc.table), Len(loc.table.headers))
        IN  (/\ loc.found /\ loc.signature = "table table-striped" /\ loc.table.thead
             /\ (g.avg = None \/ g.peak = None)) =>
                /\ n = Len(pages)
                /\ pc = "ap_return"
                /\ page_num = n
                /\ data = RecordsOfPages(pages, n - 1, CurrentGame)

C18_Witness ==
    /\ pc = "ap_return" /\ Len(pages) = 2 /\ ~pages[2].raised
    /\ Locate(pages[2].doc).found
    /\ Locate(pages[2].doc).signature = "table table-striped"
    /\ pages[2].doc.tables[1].rows # << HeaderRow >>
    /\ data # << >>

\* what the column resolution of the layout signature sig makes of the
\* header cells: the generic pass, the peak index set to the average index
\* for a single-metric signature, and no mapping unless both are set
MappingOfSignature(cells, sig) ==
    LET g == HeaderPass(cells, Len(cells))
        m == IF sig \in SingleMetric /\ g.avg # None THEN [g EXCEPT !.peak = g.avg] ELSE g
    IN  [ok |-> (m.avg # None /\ m.peak # None), avg |-> m.avg, peak |-> m.peak]

\* C19: the column mapping depends on the header row and on the signature
\* the table was located by, and on nothing else: it is the mapping of that
\* signature's rule, and every table with the same header row located by
\* the same signature gets the same mapping.
C19_ResolutionBySignature ==
    (r_pc \in {"resolved", "stopped"} /\ r_located.found /\ r_located.table.thead) =>
        /\ r_mapping = MappingOfSignature(HeaderCells(r_table), r_located.signature)
        /\ \A a \in TableAttrs :
              LET other == TableOf(a, r_table.headers)
                  loc   == Locate(PageOf(other))
              IN  (loc.found /\ other.thead /\ loc.signature = r_located.signature) =>
                      Resolve(other) = r_mapping

\* header text h holds "players" and one of the peak keywords
PeakOfPlayers(h) == Contains(h, "players") /\ AnyKeyword(h, PeakKeywords)

Normalize(text) == IF Signed(text) THEN 0 ELSE ParseNumberAP(text)

\* the record of one row under the mapping m: none unless the row has
\* enough cells and its normalized average and peak are both > 0
RecordOfRow(cols, m, game_name) ==
    IF Len(cols) > Max(m.avg, m.peak)
          /\ Normalize(cols[m.avg + 1]) > 0 /\ Normalize(cols[m.peak + 1]) > 0
    THEN << <<Strip(cols[1]), game_name,
              Normalize(cols[m.avg + 1]), Normalize(cols[m.peak + 1])>> >>
    ELSE << >>

RECURSIVE RecordsOfRows(_, _, _, _)
\* one record per valid row among the first n, in row order
RecordsOfRows(rows, n, m, game_name) ==
    IF n = 0 THEN << >>
    ELSE RecordsOfRows(rows, n - 1, m, game_name) \o RecordOfRow(rows[n], m, game_name)

\* the <td> texts of the rows of a loaded Steam Charts table
SteamCells(rows) == [k \in 1..Len(rows) |-> rows[k].td]

\* C21: a target whose single page holds a table with resolvable columns
\* returns exactly one record [first cell trimmed, target, average, peak]
\* per row that has enough cells and a normalized average and peak both
\* > 0, in row order (ActivePlayer page loop and Steam Charts row loop).
C21_OneRecordPerValidRow ==
    /\ (pc = "ap_return" /\ Len(pages) = 1 /\ WellFormed(pages[1])) =>
           LET t == Locate(pages[1].doc).table IN
           data = RecordsOfRows(t.rows, Len(t.rows), Resolve(t), CurrentGame)
    /\ (pc = "steam_return" /\ loads[Len(loads)].kind = "page"
           /\ loads[Len(loads)].found /\ loads[Len(loads)].rows # << >>
           /\ SteamResolve(SteamHeaderCells(loads[Len(loads)].rows)).avg # None) =>
           LET rows == loads[Len(loads)].rows IN
           s_data = RecordsOfRows(SteamCells(rows), Len(rows),
                                  SteamResolve(SteamHeaderCells(rows)), steam_games[s_i])

\* C22: after a stop signal between two targets or two pages, the records
\* of the targets already completed are returned or persisted: those of the
\* Steam targets are in the frame returned or the file written by
\* scrape_steam_games, those of the ActivePlayer targets in the file written
\* by scrape_activeplayer_games.
C22_StopKeepsCompletedTargets ==
    (pc = "interrupted") =>
        /\ \A k \in 1..Len(steam_all_data) : InSeq(steam_all_data[k], SteamCsv)
        /\ \A k \in 1..Len(all_data) : InSeq(all_data[k], ActivePlayerCsv)

\* C23: between the requests of page n and page n+1 of a target there is
\* exactly one inter-page sleep, made once the loop has decided to go on and
\* before page n+1 is requested; nothing is slept before page 1 nor after
\* the last page.
C23_OneDelayBetweenPages ==
    /\ \A k \in 1..Len(ap_trace) :
          IF k % 2 = 1
          THEN ap_trace[k].kind = "request" /\ ap_trace[k].page_num = (k + 1) \div 2
          ELSE ap_trace[k].kind = "sleep"
    /\ (pc = "ap_return" /\ ~overrun) =>
          (ap_trace # << >> /\ ap_trace[Len(ap_trace)].kind = "request")
    /\ (pc = "ap_page" /\ ap_trace # << >>) => ap_trace[Len(ap_trace)].kind = "sleep"

C23_Witness ==
    /\ pc = "ap_return" /\ ~overrun
    /\ Len(ap_trace) = 3 /\ ap_trace[2].kind = "sleep" /\ ap_trace[3].page_num = 2

\* C24: before the first fetch for the target of rank k of a source, a wait
\* was made after each of the targets 1..k-1 of that source; no wait is
\* made after the last target.
C24_WaitBetweenTargets ==
    /\ (pc = "steam_attempt") =>
          \A i \in 1..(s_i - 1) : [source |-> "Steam Charts", after |-> i] \in waits
    /\ (pc = "ap_page") =>
          \A i \in 1..(a_i - 1) : [source |-> "ActivePlayer", after |-> i] \in waits
    /\ [source |-> "Steam Charts", after |-> Len(steam_games)] \notin waits
    /\ [source |-> "ActivePlayer", after |-> Len(activeplayer_games)] \notin waits

IsRequest(e) == e.kind = "request"

\* the requests of the pagination loop of the current target, in order
Requests == SelectSeq(ap_trace, IsRequest)

\* C27: within one call of scrape_activeplayer the j-th request of the page
\* loop is for page j, page 1 at the base URL and page j > 1 at the base URL
\* followed by ?ms_page=j; the loop variable is one past the pages
\* requested while the loop goes on and the last page requested at its end.
C27_PageNumbersInOrder ==
    /\ \A j \in 1..Len(Requests) :
          /\ Requests[j].page_num = j
          /\ Requests[j].url = IF j = 1 THEN BaseUrl(CurrentGame)
                                ELSE BaseUrl(CurrentGame) \o "?ms_page=" \o Str(j)
    /\ (pc \in {"ap_page", "ap_return"} /\ ~overrun) =>
          /\ Len(Requests) = Len(pages)
          /\ page_num = IF pc = "ap_page" THEN Len(Requests) + 1 ELSE Len(Requests)

C27_Witness ==
    /\ pc = "ap_return" /\ ~overrun /\ a_i = 2
    /\ Len(Requests) = 2
    /\ Requests[1].url = "https://activeplayer.io/Game B/"
    /\ Requests[2].url = "https://activeplayer.io/Game B/?ms_page=2"

\* the order in which the Table Locator is to try the signatures
LocatorOrder ==
    << "table_2", "table_3", "steam-stats-table", "asdrm-monthly-stats-table",
       "gst-data-table", "wgs-stats-table", "table table-striped" >>

\* the positions, in document order, of the tables matching signature sig
Matching(doc, sig) == { i \in 1..Len(doc.tables) : MatchesSignature(doc.tables[i], sig) }

\* C25: the table returned is the first table of the document matching the
\* earliest signature of the fixed order that matches any table of the
\* document, and no table is found only when no signature matches any.
C25_EarliestSignatureWins ==
    (l_pc # "fetched" /\ l_pc # "idle") =>
        LET hits == { k \in 1..Len(LocatorOrder) : Matching(l_doc, LocatorOrder[k]) # {} } IN
        IF hits = {} THEN l_pc = "not_found" /\ ~l_located.found
        ELSE LET k == CHOOSE k \in hits : \A j \in hits : k <= j
                 m == Matching(l_doc, LocatorOrder[k])
                 i == CHOOSE i \in m : \A j \in m : i <= j
             IN  /\ l_pc = "located" /\ l_located.found
                 /\ l_located.signature = LocatorOrder[k]
                 /\ l_located.table = l_doc.tables[i]

C25_Witness ==
    /\ l_pc = "located" /\ Len(l_doc.tables) = 2
    /\ l_doc.tables[1].class = <<"wgs-stats-table">> /\ l_doc.tables[1].id = ""
    /\ l_doc.tables[2].class = << >> /\ l_doc.tables[2].id = "table_2"
    /\ l_located.signature = "table_2" /\ l_located.table = l_doc.tables[2]

\* row k of rows is well formed and valid under the mapping m
ValidRow(rows, k, m) == RecordOfRow(rows[k], m, "") # << >>

\* row j of rows is malformed under the mapping m
Malformed(rows, j, m) == Len(rows[j]) <= Max(m.avg, m.peak)

\* C26: a row with fewer cells than max(average index, peak index) + 1 (a
\* header row included) is skipped without an error and without effect on
\* the other rows: the record of every well-formed valid row of a page,
\* before or after it, is among the records extracted, in both row loops.
C26_MalformedRowSkipped ==
    /\ pc # "crashed"
    /\ \A n \in 1..Len(pages) :
          WellFormed(pages[n]) =>
              LET t == Locate(pages[n].doc).table IN
              \A k \in 1..Len(t.rows) :
                  ValidRow(t.rows, k, Resolve(t)) =>
                      InSeq(RecordOfRow(t.rows[k], Resolve(t), CurrentGame)[1], data)
    /\ (pc = "steam_return" /\ loads[Len(loads)].kind = "page"
           /\ loads[Len(loads)].found /\ loads[Len(loads)].rows # << >>
           /\ SteamResolve(SteamHeaderCells(loads[Len(loads)].rows)).avg # None) =>
           LET rows == SteamCells(loads[Len(loads)].rows)
               m    == SteamResolve(SteamHeaderCells(loads[Len(loads)].rows))
           IN  \A k \in 2..Len(rows) :
                   ValidRow(rows, k, m) =>
                       InSeq(RecordOfRow(rows[k], m, steam_games[s_i])[1], s_data)

C26_Witness ==
    /\ pc = "ap_return" /\ Len(pages) = 1 /\ WellFormed(pages[1])
    /\ LET t == Locate(pages[1].doc).table IN
        /\ Len(t.rows) >= 3
        /\ Malformed(t.rows, 1, Resolve(t))
        /\ ValidRow(t.rows, 2, Resolve(t))
        /\ Malformed(t.rows, 3, Resolve(t)) /\ t.rows[3] # << >>
    /\ Len(data) = 1

PeakHeader(h) == AnyKeyword(h, PeakKeywords)

\* header i of cells names the average column: it holds no peak keyword and
\* holds an average keyword, or merely "players" with no peak header to its
\* left
AverageHeader(cells, i) ==
    /\ ~PeakHeader(cells[i])
    /\ \/ AnyKeyword(cells[i], AvgKeywords)
       \/ Contains(cells[i], "estimated players")
       \/ Contains(cells[i], "monthly average users")
       \/ (Contains(cells[i], "players") /\ \A j \in 1..(i - 1) : ~PeakHeader(cells[j]))

\* the (0-based) index of the last position of S, None when S is empty
LastOf(S) == IF S = {} THEN None ELSE (CHOOSE i \in S : \A j \in S : j <= i) - 1

\* C28: after the generic header pass each index is that of the LAST header
\* that matches it, left to right: a header merely holding "players" takes
\* the average index over from an earlier average header when no peak header
\* precedes it, and leaves it alone when one does.
C28_LastMatchWins ==
    (r_pc \in {"headers_read", "resolved", "stopped"} /\ r_located.found /\ r_located.table.thead) =>
        LET cells == HeaderCells(r_table) IN
        /\ r_generic.peak = LastOf({ i \in 1..Len(cells) : PeakHeader(cells[i]) })
        /\ r_generic.avg = LastOf({ i \in 1..Len(cells) : AverageHeader(cells, i) })

C28_Witness ==
    /\ r_pc = "headers_read"
    /\ HeaderCells(r_table) = <<"daily average", "players", "peak players">>
    /\ r_generic = [avg |-> 1, peak |-> 2]

====
